---- MODULE Spec2Model ----
(***************************************************************************)
(* Model of process_behavior (src/process_behavior.py): the pipeline that  *)
(* turns a demographic table and a behavior event log into one row per     *)
(* (customer, completed term).  Every statement group of the function is   *)
(* one action; the data frames are sequences of records (rows in frame     *)
(* order).  Dates are [month, day] records, months counted from the first  *)
(* month of the modelled horizon; NaT is the null date.                    *)
(***************************************************************************)
EXTENDS Integers, Sequences, FiniteSets

\* ---------------------------------------------------------------- bounds
MaxMonth == 6          \* months 0..MaxMonth can carry dates
MaxEvents == 2         \* rows of the behavior table given to a run
MaxWindow == 2         \* |rolling_window| <= MaxWindow

Months == 0..MaxMonth
Days == {1, 15}
Volumes == {1, 2}
Recurrences == {"Trimestral", "Mensal"}

NaT == [month |-> -1, day |-> -1]
Dates == [month : Months, day : Days]

\* ------------------------------------------------------- date arithmetic
\* Timestamp comparison
DateLT(a, b) == a.month < b.month \/ (a.month = b.month /\ a.day < b.day)

\* values.astype('datetime64[M]'): the first day of the month, NaT stays NaT
AsMonth(d) == IF d = NaT THEN NaT ELSE [month |-> d.month, day |-> 1]

\* pd.Grouper(freq = 'MS'): the bucket of a date is the start of its month
MonthStart(d) == [month |-> d.month, day |-> 1]

\* ------------------------------------------------------ sequence helpers
RECURSIVE SortedSeq(_)
SortedSeq(S) ==
  IF S = {} THEN <<>>
  ELSE LET m == CHOOSE x \in S : \A y \in S : x <= y
       IN <<m>> \o SortedSeq(S \ {m})

RECURSIVE Concat(_)
Concat(ss) == IF ss = <<>> THEN <<>> ELSE Head(ss) \o Concat(Tail(ss))

RECURSIVE SumSeq(_)
SumSeq(s) == IF s = <<>> THEN 0 ELSE Head(s) + SumSeq(Tail(s))

Range(s) == {s[i] : i \in 1..Len(s)}
Map(s, F(_)) == [i \in 1..Len(s) |-> F(s[i])]
IdsOf(df) == {df[i].id : i \in 1..Len(df)}
RowsOf(df, c) == SelectSeq(df, LAMBDA r : r.id = c)

\* demgeo_in, behavior_in: the tables as passed in; demgeo_df, behavior_df: the
\* local variables of the same name; active_df: behavior_df as line 172 leaves
\* it; raised: the exception that ended the run and the line that raised it
VARIABLES demgeo_in, behavior_in, filter_rows, rolling_window,
          demgeo_df, behavior_df, date_range, active_df, pc, raised, out

vars == <<demgeo_in, behavior_in, filter_rows, rolling_window,
          demgeo_df, behavior_df, date_range, active_df, pc, raised, out>>

NoException == [type |-> "none", line |-> 0]
Exception(t, l) == [type |-> t, line |-> l]

\* ------------------------------------------------------------ the inputs
DemgeoRows(c, becames, churns, recurrences) ==
  [id : {c}, became_customer_date : becames, churn_date : churns,
   last_recurrence : recurrences]

\* events fall inside their month, so that bucketing has to move them
EventDates == [month : Months, day : {15}]
EventRows(c, volumes) == [id : {c}, days : EventDates, total_issues : volumes]

\* The function reads the behavior table through isin, set() and a grouped sum
\* only, so one row order per multiset of rows is enumerated.
EventKey(e) == (e.id * (MaxMonth + 1) + e.days.month) * 2 * (MaxMonth + 1) + e.total_issues
Ordered(s) == \A i \in 1..Len(s) : \A j \in i..Len(s) : EventKey(s[i]) <= EventKey(s[j])

\* 0 stands for both None and 0: line 197 tests the truth value only
RollingWindows == {0 - MaxWindow, 0, 1, MaxWindow}

\* term_dict, line 175
term_dict == [r \in {"Anual", "Trimestral", "Mensal", "Semestral"} |->
                CASE r = "Anual" -> 12
                  [] r = "Trimestral" -> 3
                  [] r = "Mensal" -> 1
                  [] r = "Semestral" -> 6]

\* split_by_date, line 16 (month 3 of the horizon stands for 2017-01)
split_by_date == [month |-> 3, day |-> 1]

\* One customer of the filtered recurrence with any lifecycle and up to
\* MaxEvents events of one volume.
InitOne ==
  /\ \E r1 \in DemgeoRows(1, Dates, Dates \cup {NaT}, {"Trimestral"}) :
       demgeo_in = <<r1>>
  /\ \E n \in 0..MaxEvents :
       /\ behavior_in \in [1..n -> EventRows(1, {2})]
       /\ Ordered(behavior_in)

\* Two customers, each with or without one event, a few lifecycles each.
FewBecames == {[month |-> 0, day |-> 1], [month |-> 2, day |-> 15]}
FewChurns == {NaT, [month |-> 2, day |-> 1]}

InitTwo ==
  /\ \E r1 \in DemgeoRows(1, FewBecames, FewChurns, Recurrences) :
       \E r2 \in DemgeoRows(2, FewBecames, FewChurns, Recurrences) :
         demgeo_in = <<r1, r2>>
  /\ \E e1 \in {<<>>} \cup {<<e>> : e \in EventRows(1, Volumes)} :
       \E e2 \in {<<>>} \cup {<<e>> : e \in EventRows(2, Volumes)} :
         behavior_in = e1 \o e2

\* The customer of the docstring: six months [2,1,0,3,5,1] from the month the
\* customer joined, never churned.
Event(c, m, v) == [id |-> c, days |-> [month |-> m, day |-> 15], total_issues |-> v]

InitScenario ==
  /\ demgeo_in = <<[id |-> 1, became_customer_date |-> [month |-> 0, day |-> 15],
                    churn_date |-> NaT, last_recurrence |-> "Trimestral"]>>
  /\ behavior_in = <<Event(1, 0, 2), Event(1, 1, 1), Event(1, 3, 3),
                     Event(1, 4, 5), Event(1, 5, 1)>>

Init ==
  /\ InitOne \/ InitTwo \/ InitScenario
  /\ filter_rows = [last_recurrence |-> "Trimestral"]
  /\ rolling_window \in RollingWindows
  /\ demgeo_df = demgeo_in
  /\ behavior_df = behavior_in
  /\ date_range = <<>>
  /\ pc = "check"
  /\ active_df = <<>>
  /\ raised = NoException
  /\ out = <<>>

\* ------------------------------------------------- lines 104-107
\* mutant: the dates compared by month only
ChurnMonthBeforeBecame(r) ==
  r.churn_date # NaT /\ r.churn_date.month < r.became_customer_date.month

ChurnBeforeBecame(r) ==
  r.churn_date # NaT /\ DateLT(r.churn_date, r.became_customer_date)

Validate ==
  /\ pc = "check"
  /\ IF \E i \in 1..Len(demgeo_df) : ChurnBeforeBecame(demgeo_df[i])
       THEN pc' = "raised" /\ raised' = Exception("ValueError", 107)
       ELSE pc' = "filter" /\ raised' = raised
  /\ UNCHANGED <<demgeo_in, behavior_in, filter_rows, rolling_window,
                 demgeo_df, behavior_df, date_range, active_df, out>>

\* ------------------------------------------------- lines 109-122
DropFilterCols(r) ==
  [id |-> r.id, became_customer_date |-> r.became_customer_date,
   churn_date |-> r.churn_date]

CohortFilter ==
  /\ pc = "filter"
  /\ LET kept == SelectSeq(demgeo_df,
                   LAMBDA r : r.last_recurrence = filter_rows.last_recurrence)
         demgeo == Map(kept, DropFilterCols)
     IN /\ demgeo_df' = demgeo
        /\ behavior_df' = SelectSeq(behavior_df, LAMBDA e : e.id \in IdsOf(demgeo))
  /\ pc' = "zerofill"
  /\ UNCHANGED <<demgeo_in, behavior_in, filter_rows, rolling_window,
                 date_range, active_df, raised, out>>

\* ------------------------------------------------- lines 124-130
SyntheticRow(r) ==
  [id |-> r.id, days |-> r.became_customer_date, total_issues |-> 0]

\* mutant: no synthetic row
ZeroFillNothing(demgeo, behavior) == <<>>

ZeroFillRows(demgeo, behavior) ==
  LET ids_no_behavior == IdsOf(demgeo) \ IdsOf(behavior)
  IN Map(SelectSeq(demgeo, LAMBDA r : r.id \in ids_no_behavior), SyntheticRow)

ZeroFill ==
  /\ pc = "zerofill"
  /\ behavior_df' = behavior_df \o ZeroFillRows(demgeo_df, behavior_df)
  /\ pc' = "group"
  /\ UNCHANGED <<demgeo_in, behavior_in, filter_rows, rolling_window,
                 demgeo_df, date_range, active_df, raised, out>>

\* ------------------------------------------------- lines 132-141
\* groupby([client_id, Grouper(freq = 'MS')]).sum(): one row per observed
\* (customer, month start), ordered by customer and then by month
GroupSum(df) ==
  LET buckets(c) == SortedSeq({MonthStart(df[i].days).month :
                                 i \in {k \in 1..Len(df) : df[k].id = c}})
      cell(c, m) == [id |-> c, days |-> [month |-> m, day |-> 1],
                     total_issues |->
                       SumSeq(Map(SelectSeq(df, LAMBDA e : e.id = c /\ MonthStart(e.days).month = m),
                                  LAMBDA e : e.total_issues))]
      group(c) == [k \in 1..Len(buckets(c)) |-> cell(c, buckets(c)[k])]
      ids == SortedSeq(IdsOf(df))
  IN Concat([k \in 1..Len(ids) |-> group(ids[k])])

\* pd.date_range(start, end, freq = 'MS')
DateRange(lo, hi) == [k \in 1..(hi.month - lo.month + 1) |->
                        [month |-> lo.month + k - 1, day |-> 1]]

Periodize ==
  /\ pc = "group"
  /\ LET grouped == GroupSum(behavior_df)
         months == {grouped[i].days.month : i \in 1..Len(grouped)}
     IN IF grouped = <<>>
          THEN \* min_date and max_date are NaT and pd.date_range rejects NaT
               /\ pc' = "raised" /\ raised' = Exception("ValueError", 141)
               /\ UNCHANGED <<behavior_df, date_range>>
          ELSE LET min_date == [month |-> CHOOSE m \in months : \A n \in months : m <= n,
                                 day |-> 1]
                   max_date == [month |-> CHOOSE m \in months : \A n \in months : m >= n,
                                 day |-> 1]
               IN /\ behavior_df' = grouped
                  /\ date_range' = DateRange(min_date, max_date)
                  /\ pc' = "reindex" /\ raised' = raised
  /\ UNCHANGED <<demgeo_in, behavior_in, filter_rows, rolling_window,
                 demgeo_df, active_df, out>>

\* ------------------------------------------------- lines 143-148
\* reindex(date_range, fill_value = 0) inside every customer's group
ReindexGroup(df, c, grid) ==
  [k \in 1..Len(grid) |->
     LET hit == SelectSeq(df, LAMBDA r : r.id = c /\ r.days = grid[k])
     IN [id |-> c, days |-> grid[k],
         total_issues |-> IF hit = <<>> THEN 0 ELSE hit[1].total_issues]]

ReindexAll(df, grid) ==
  LET ids == SortedSeq(IdsOf(df))
  IN Concat([k \in 1..Len(ids) |-> ReindexGroup(df, ids[k], grid)])

Reindex ==
  /\ pc = "reindex"
  /\ LET frame == ReindexAll(behavior_df, date_range)
     IN /\ behavior_df' = frame
        /\ IF Cardinality(IdsOf(frame)) = Cardinality(IdsOf(demgeo_df))
             THEN pc' = "join" /\ raised' = raised
             ELSE pc' = "raised" /\ raised' = Exception("AssertionError", 148)
  /\ UNCHANGED <<demgeo_in, behavior_in, filter_rows, rolling_window,
                 demgeo_df, date_range, active_df, out>>

\* ------------------------------------------------- lines 150-172
\* behavior_df.join(demgeo_df.set_index(client_id)): every frame row gets the
\* became and churn dates of its customer's demographic row(s)
JoinRows(df, demgeo) ==
  Concat([k \in 1..Len(df) |->
            Map(SelectSeq(demgeo, LAMBDA d : d.id = df[k].id),
                LAMBDA d : [id |-> df[k].id, days |-> df[k].days,
                            total_issues |-> df[k].total_issues,
                            became_customer_date |-> d.became_customer_date,
                            churn_date |-> d.churn_date])])

\* (date normalised to its month == period of the row), cumulated inside the
\* customer's group: true from the first row whose period equals the date
CumFlag(g, k, date) == \E j \in 1..k : AsMonth(date) = g[j].days

ActiveRows(g) ==
  LET flagged == [k \in 1..Len(g) |->
                    [id |-> g[k].id, days |-> g[k].days,
                     total_issues |-> g[k].total_issues,
                     churned |-> (g[k].churn_date # NaT),
                     active_flag |-> /\ CumFlag(g, k, g[k].became_customer_date)
                                     /\ ~CumFlag(g, k, g[k].churn_date)]]
  IN Map(SelectSeq(flagged, LAMBDA r : r.active_flag),
         LAMBDA r : [id |-> r.id, days |-> r.days,
                     total_issues |-> r.total_issues, churned |-> r.churned])

PerGroup(df, F(_)) ==
  LET ids == SortedSeq(IdsOf(df))
  IN Concat([k \in 1..Len(ids) |-> F(RowsOf(df, ids[k]))])

Resolve ==
  /\ pc = "join"
  /\ behavior_df' = PerGroup(JoinRows(behavior_df, demgeo_df), ActiveRows)
  /\ active_df' = behavior_df'
  /\ pc' = "term"
  /\ UNCHANGED <<demgeo_in, behavior_in, filter_rows, rolling_window,
                 demgeo_df, date_range, raised, out>>

\* ------------------------------------------------- lines 174-193
term == term_dict[filter_rows.last_recurrence]

\* keep_month_func, then fix_churn_func and the term column on what is kept
\* mutant: the incomplete tail is kept
KeptLenAll(n) == n

KeptLen(n) == term * (n \div term)

\* mutant: the per-period churn flag is left as joined
SegmentRowsRawChurn(g) ==
  LET kept == SubSeq(g, 1, term * (Len(g) \div term))
  IN [k \in 1..Len(kept) |->
        [id |-> kept[k].id, days |-> kept[k].days,
         total_issues |-> kept[k].total_issues,
         churned |-> kept[k].churned,
         term |-> (k - 1) \div term]]

SegmentRows(g) ==
  LET kept == SubSeq(g, 1, KeptLen(Len(g)))
      n == Len(kept)
  IN [k \in 1..n |->
        [id |-> kept[k].id, days |-> kept[k].days,
         total_issues |-> kept[k].total_issues,
         churned |-> IF kept[1].churned THEN k = n ELSE FALSE,
         term |-> (k - 1) \div term]]

Segment ==
  /\ pc = "term"
  /\ behavior_df' = PerGroup(behavior_df, SegmentRows)
  /\ pc' = "rolling"
  /\ UNCHANGED <<demgeo_in, behavior_in, filter_rows, rolling_window,
                 demgeo_df, date_range, active_df, raised, out>>

\* ------------------------------------------------- lines 195-207
\* means are kept as fractions num/den; NaN is the missing value
NaN == [num |-> 0, den |-> 0]
Abs(n) == IF n < 0 THEN 0 - n ELSE n
Max(a, b) == IF a >= b THEN a ELSE b

\* x.rolling(w, min_periods = 1).mean() at position i
RollingMean(x, w, i) ==
  LET lo == Max(1, i - w + 1)
  IN [num |-> SumSeq(SubSeq(x, lo, i)), den |-> i - lo + 1]

\* mutant: no shift, the window ends at the current period
ShiftNone(x, w, k) == RollingMean(x, w, k)

\* .shift() at position k
Shift(x, w, k) == IF k = 1 THEN NaN ELSE RollingMean(x, w, k - 1)

\* mutant: the missing first value is filled with 1
FillNaOne(v) == IF v = NaN THEN [num |-> 1, den |-> 1] ELSE v

FillNa(v) == IF v = NaN THEN [num |-> 0, den |-> 1] ELSE v

RollingRows(g) ==
  LET x == Map(g, LAMBDA r : r.total_issues)
      w == Abs(rolling_window)
      take_diff == rolling_window < 0
      rm(k) == FillNa(Shift(x, w, k))
  IN [k \in 1..Len(g) |->
        [id |-> g[k].id, days |-> g[k].days,
         total_issues |-> g[k].total_issues,
         churned |-> g[k].churned, term |-> g[k].term,
         rm |-> IF take_diff
                  THEN [num |-> x[k] * rm(k).den - rm(k).num, den |-> rm(k).den]
                  ELSE rm(k)]]

Rolling ==
  /\ pc = "rolling"
  /\ behavior_df' = IF rolling_window # 0
                      THEN PerGroup(behavior_df, RollingRows)
                      ELSE behavior_df
  /\ pc' = "agg"
  /\ UNCHANGED <<demgeo_in, behavior_in, filter_rows, rolling_window,
                 demgeo_df, date_range, active_df, raised, out>>

\* ------------------------------------------------- lines 209-218
Count(s, P(_)) == Len(SelectSeq(s, P))

\* groupby([client_id, 'term']).agg(...): one row per (customer, term)
AggRows(g) ==
  LET terms == SortedSeq({g[k].term : k \in 1..Len(g)})
  IN [t \in 1..Len(terms) |->
        LET rows == SelectSeq(g, LAMBDA r : r.term = terms[t])
        IN [id |-> rows[1].id, term |-> terms[t],
            total_issues |-> Map(rows, LAMBDA r : r.total_issues),
            rm |-> Map(rows, LAMBDA r : r.rm),
            churned |-> Count(rows, LAMBDA r : r.churned),
            date |-> rows[1].days]]

Aggregate ==
  /\ pc = "agg"
  /\ IF rolling_window = 0
       THEN \* behavior_volume_col_rm was never assigned (line 213)
            /\ pc' = "raised" /\ raised' = Exception("NameError", 213)
            /\ UNCHANGED behavior_df
       ELSE /\ behavior_df' = PerGroup(behavior_df, AggRows)
            /\ pc' = "expand" /\ raised' = raised
  /\ UNCHANGED <<demgeo_in, behavior_in, filter_rows, rolling_window,
                 demgeo_df, date_range, active_df, out>>

\* ------------------------------------------------- lines 220-247
\* month 0 of the horizon is October, so that split_by_date is January
CalendarMonth(d) == ((d.month + 9) % 12) + 1

\* mutant: the tuple is laid out backwards
ColumnsReversed(tuple) == [j \in 0..(Len(tuple) - 1) |-> tuple[Len(tuple) - j]]

\* apply(pd.Series): tuple position j becomes column <col>_j, j = 0, 1, ...
Columns(tuple) == [j \in 0..(Len(tuple) - 1) |-> tuple[j + 1]]

OutRow(r) ==
  [id |-> r.id, term |-> r.term, month |-> CalendarMonth(r.date),
   total_issues |-> Columns(r.total_issues), rm |-> Columns(r.rm),
   churned |-> r.churned, train |-> DateLT(r.date, split_by_date)]

Finish ==
  /\ pc = "expand"
  /\ out' = Map(behavior_df, OutRow)
  /\ pc' = "done"
  /\ UNCHANGED <<demgeo_in, behavior_in, filter_rows, rolling_window,
                 demgeo_df, behavior_df, date_range, active_df, raised>>

Next ==
  \/ Validate \/ CohortFilter \/ ZeroFill \/ Periodize \/ Reindex
  \/ Resolve \/ Segment \/ Rolling \/ Aggregate \/ Finish

Spec == Init /\ [][Next]_vars

\* =================================================================== claims
Retained == IdsOf(demgeo_df)
ActiveOf(c) == RowsOf(active_df, c)
OutOf(c) == RowsOf(out, c)
Record(c) == CHOOSE d \in Range(demgeo_in) : d.id = c
Floor(n, d) == CHOOSE q \in 0..n : q * d <= n /\ n < (q + 1) * d

\* the summed volume of customer c's events of the month of period p
BucketVolume(c, p) ==
  SumSeq(Map(SelectSeq(behavior_in, LAMBDA e : e.id = c /\ e.days.month = p.month),
             LAMBDA e : e.total_issues))

\* C1: a retained customer with L active periods keeps its first
\* term * floor(L / term) active periods, in order, and gets floor(L / term)
\* rows; none when L < term.
C1_RowsPerCustomer ==
  /\ pc = "rolling" =>
       \A c \in Retained :
         LET kept == RowsOf(behavior_df, c)
             L == Len(ActiveOf(c))
         IN /\ Len(kept) = term * Floor(L, term)
            /\ \A k \in 1..Len(kept) : kept[k].days = ActiveOf(c)[k].days
  /\ pc = "done" =>
       \A c \in Retained :
         LET L == Len(ActiveOf(c))
         IN /\ Len(OutOf(c)) = Floor(L, term)
            /\ (L < term => OutOf(c) = <<>>)

C1_Witness ==
  /\ pc = "done"
  /\ \E c \in Retained : Len(ActiveOf(c)) = 2 * term + 1 /\ Len(OutOf(c)) = 2
  /\ \E c \in Retained : Len(ActiveOf(c)) \in 1..(term - 1) /\ OutOf(c) = <<>>

C3_ActiveIffInWindow ==
  pc = "term" =>
    \A c \in Retained : \A k \in 1..Len(date_range) :
      LET p == date_range[k]
          d == Record(c)
          kept == \E i \in 1..Len(behavior_df) :
                    behavior_df[i].id = c /\ behavior_df[i].days = p
      IN kept <=> /\ d.became_customer_date.month <= p.month
                  /\ (d.churn_date = NaT \/ p.month < d.churn_date.month)

\* C4: column j of the row (c, t) holds the summed volume of c's
\* (t * term + j)-th active period; no two rows share (c, t).
C4_VolumesInOrder ==
  pc = "done" =>
    /\ \A i \in 1..Len(out) :
         LET r == out[i]
             a == ActiveOf(r.id)
         IN /\ DOMAIN r.total_issues = 0..(term - 1)
            /\ \A j \in 0..(term - 1) :
                 /\ r.term * term + j + 1 <= Len(a)
                 /\ r.total_issues[j] = BucketVolume(r.id, a[r.term * term + j + 1].days)
    /\ \A i, j \in 1..Len(out) :
         (out[i].id = out[j].id /\ out[i].term = out[j].term) => i = j

C4_Witness ==
  /\ pc = "done"
  /\ Len(out) = 2
  /\ out[1].total_issues = [j \in 0..2 |-> <<2, 1, 0>>[j + 1]]
  /\ out[2].total_issues = [j \in 0..2 |-> <<3, 5, 1>>[j + 1]]

\* C5: with rolling_window = w # 0 the rolling value of the k-th active
\* period (k >= 1) is the mean of the volumes of active periods
\* max(0, k - |w|) .. k - 1 of the untrimmed active sequence; for w < 0 the
\* value is volume_k minus that mean.
C5_TrailingMean ==
  (pc = "done" /\ rolling_window # 0) =>
    \A i \in 1..Len(out) : \A j \in 0..(term - 1) :
      LET r == out[i]
          a == ActiveOf(r.id)
          k == r.term * term + j
          w == IF rolling_window < 0 THEN 0 - rolling_window ELSE rolling_window
          lo == IF k - w < 0 THEN 0 ELSE k - w
          n == k - lo
          S == SumSeq([q \in 1..n |-> a[lo + q].total_issues])
          v == r.rm[j]
      IN k >= 1 =>
           /\ v.den > 0
           /\ IF rolling_window > 0
                THEN v.num * n = S * v.den
                ELSE v.num * n = (a[k + 1].total_issues * n - S) * v.den

C5_Witness ==
  /\ pc = "done"
  /\ rolling_window = 0 - MaxWindow
  /\ \E i \in 1..Len(out) :
       /\ out[i].term = 1
       /\ out[i].rm[0].num # 0
       /\ ActiveOf(out[i].id)[term - 1].total_issues # 0

\* C6 as stated: with rolling_window # 0 the rolling value of the first
\* active period of every customer is 0.
C6_FirstRollingZero ==
  (pc = "done" /\ rolling_window # 0) =>
    \A i \in 1..Len(out) : out[i].term = 0 => out[i].rm[0].num = 0

\* C6 amended: the rolling value of the first active period of every customer
\* is 0 when rolling_window > 0 and is that period's volume when
\* rolling_window < 0.
C6_FirstRollingAmended ==
  (pc = "done" /\ rolling_window # 0) =>
    \A i \in 1..Len(out) :
      out[i].term = 0 =>
        /\ out[i].rm[0].den = 1
        /\ out[i].rm[0].num = IF rolling_window > 0 THEN 0 ELSE out[i].total_issues[0]

C6_Witness ==
  /\ pc = "done"
  /\ rolling_window < 0
  /\ \E i \in 1..Len(out) :
       /\ out[i].term = 0
       /\ out[i].total_issues[0] # 0
       /\ out[i].rm[0].num = out[i].total_issues[0]

\* C7: a record whose churn date is earlier than its became date ends the
\* run with ValueError at the consistency check, before anything is filtered
\* or produced; without such a record the consistency check raises nothing.
DayNumber(d) == d.month * 31 + d.day
HasEarlyChurn ==
  \E i \in 1..Len(demgeo_in) :
    /\ demgeo_in[i].churn_date # NaT
    /\ DayNumber(demgeo_in[i].churn_date) < DayNumber(demgeo_in[i].became_customer_date)

C7_ValidatorStops ==
  /\ HasEarlyChurn =>
       \/ pc = "check"
       \/ /\ pc = "raised" /\ raised = Exception("ValueError", 107)
          /\ out = <<>> /\ demgeo_df = demgeo_in /\ behavior_df = behavior_in
  /\ ~HasEarlyChurn => raised.line # 107

C7_Witness ==
  /\ pc = "raised" /\ raised.line = 107
  /\ Len(demgeo_in) = 2
  /\ demgeo_in[1].churn_date = NaT
  /\ demgeo_in[2].churn_date.month = demgeo_in[2].became_customer_date.month

\* C8: with rolling_window disabled a run on valid input (accepted by the
\* consistency check, with a customer left by the cohort filter) raises nothing.
C8_RollingOptional ==
  (rolling_window = 0 /\ pc = "raised") => (raised.line = 107 \/ demgeo_df = <<>>)

\* C9: a run whose cohort filter leaves no customer raises nothing and
\* returns no row.
C9_EmptyCohortCompletes ==
  demgeo_df = <<>> => (pc # "raised" /\ out = <<>>)

\* C10: after the zero-fill a retained customer without events has exactly
\* one event, of volume 0 at its became date, a customer with events has its
\* own events only, and the customers on the grid are the retained customers
\* (the assertion of line 148 never fails).
C10_ZeroFill ==
  /\ pc = "group" =>
       \A c \in Retained :
         LET given == RowsOf(behavior_in, c)
             now == RowsOf(behavior_df, c)
         IN IF given = <<>>
              THEN now = <<[id |-> c, days |-> Record(c).became_customer_date,
                            total_issues |-> 0]>>
              ELSE now = given
  /\ pc = "join" => IdsOf(behavior_df) = Retained
  /\ raised.type # "AssertionError"

C10_Witness ==
  /\ pc = "join"
  /\ Cardinality(Retained) = 2
  /\ \E c \in Retained : RowsOf(behavior_in, c) = <<>>
  /\ \E c \in Retained : RowsOf(behavior_in, c) # <<>>

====
